---- MODULE Spec2Model ----
(***************************************************************************)
(* Model of the config-store conformance harness (refactor_config.go):     *)
(* Make, Compare, CheckMapInvariant and its helpers, driven against a      *)
(* reference store that follows the store contract of the specification.   *)
(***************************************************************************)
EXTENDS Integers, Sequences, FiniteSets, TLC

VARIABLES
    registered,      \* the registry resolves the test kind (r.Schemas())
    listAllOnEmpty,  \* store option: List(kind, "") applies no namespace filter
    store,           \* live resources held by the store
    rev,             \* store clock: source of version tokens and timestamps
    store0,          \* the store as it was when the harness was invoked
    namespace,       \* argument of CheckMapInvariant
    n,               \* argument of CheckMapInvariant
    pc,              \* position of the harness
    elts,            \* fixtures: index -> Config (createConfigs)
    pending,         \* indices a range-over-map loop has still to visit
    revs,            \* versions observed during read-back (verifyConfigsInStore)
    k,               \* loop counter of deleteConfigsFromStore / probe number
    failures,        \* failures reported through t.Error / t.Fatal
    calls,           \* number of store operations issued, by call site
    createCalls,     \* number of Create calls per fixture index
    lastList,        \* result of the most recent List issued by the harness
    lastGet,         \* result of the most recent Get issued by the harness
    probes,          \* the zero-value, "invalid" and "missing" resources
    clusterKinds,    \* example kinds the registry reports as cluster-scoped
    fin,             \* pure-function specifications: inputs
    fout             \* pure-function specifications: outputs

vars == <<registered, listAllOnEmpty, store, rev, store0, namespace, n, pc,
          elts, pending, revs, k, failures, calls, createCalls, lastList,
          lastGet, probes, clusterKinds, fin, fout>>

(***************************************************************************)
(* Bounds                                                                  *)
(***************************************************************************)
MaxN == 5          \* largest fixture count n
MaxIndex == 11     \* largest index handed to Make on its own
MaxRev == 6        \* store operations in the free-running store specification

(***************************************************************************)
(* Go values                                                               *)
(***************************************************************************)
\* map[string]string: a nil map differs from an empty one under DeepEqual
NilMap == [isNil |-> TRUE, kv |-> <<>>]
GoMap(f) == [isNil |-> FALSE, kv |-> f]

\* config2.Spec holding *config.MockConfig, or the nil interface
\* (type names the concrete payload type behind the interface)
NilSpec == [isNil |-> TRUE, type |-> "", key |-> "", pairs |-> <<>>]
MockConfig(key, pairs) ==
    [isNil |-> FALSE, type |-> "MockConfig", key |-> key, pairs |-> pairs]
OtherSpec(key) ==
    [isNil |-> FALSE, type |-> "OtherConfig", key |-> key, pairs |-> <<>>]
ConfigPair(key, value) == [key |-> key, value |-> value]

\* time.Time{} and the empty ResourceVersion
ZeroTime == 0
NoVersion == ""

\* kinds: mockGvk, the zero GroupVersionKind, a second namespaced kind and
\* a cluster-scoped kind
mockGvk == "MockConfig"
ZeroGvk == ""
otherGvk == "OtherConfig"
clusterGvk == "ClusterConfig"

Config(kind, name, ns, labels, annotations, version, createdAt, spec) ==
    [kind |-> kind, name |-> name, namespace |-> ns, labels |-> labels,
     annotations |-> annotations, version |-> version,
     createdAt |-> createdAt, spec |-> spec]

\* config2.Config{}
ZeroConfig == Config(ZeroGvk, "", "", NilMap, NilMap, NoVersion, ZeroTime, NilSpec)

\* the nil *config2.Config returned by Get
NilConfig == [isNil |-> TRUE, cfg |-> ZeroConfig]
Ptr(c) == [isNil |-> FALSE, cfg |-> c]

(***************************************************************************)
(* strconv.Itoa and fmt.Sprintf("%s%d", ...)                               *)
(***************************************************************************)
Digit == <<"0", "1", "2", "3", "4", "5", "6", "7", "8", "9">>

RECURSIVE Itoa(_)
Itoa(i) == IF i < 0 THEN "-" \o Itoa(-i)
           ELSE IF i < 10 THEN Digit[i + 1]
           ELSE Itoa(i \div 10) \o Digit[(i % 10) + 1]

Sprintf_sd(s, d) == s \o Itoa(d)

(***************************************************************************)
(* Make and Compare                                                        *)
(***************************************************************************)
\* variant: the index is left out of the name
MakeNameNoIndex(i) == "mock-config"

MakeName(i) == Sprintf_sd("mock-config", i)

Make(ns, i) ==
    LET name == MakeName(i)
    IN  Config(mockGvk, name, ns,
               GoMap("key" :> name),
               GoMap("annotationkey" :> name),
               NoVersion, ZeroTime,
               MockConfig(name, <<ConfigPair("key", Itoa(i))>>))

DeepEqual(a, b) == a = b

\* variant: the revisions are compared too
CompareKeepVersion(a, b) ==
    LET a2 == [a EXCEPT !.createdAt = ZeroTime]
        b2 == [b EXCEPT !.createdAt = ZeroTime]
    IN  DeepEqual(a2, b2)

\* variant: the creation times are compared too
CompareKeepTime(a, b) ==
    LET a2 == [a EXCEPT !.version = NoVersion]
        b2 == [b EXCEPT !.version = NoVersion]
    IN  DeepEqual(a2, b2)

Compare(a, b) ==
    LET a2 == [a EXCEPT !.version = NoVersion, !.createdAt = ZeroTime]
        b2 == [b EXCEPT !.version = NoVersion, !.createdAt = ZeroTime]
    IN  DeepEqual(a2, b2)

(***************************************************************************)
(* Registry and store contract (Create, Update, Get, List, Delete)         *)
(***************************************************************************)
\* the kinds of the five example resources
ExampleKinds == {"VirtualService", "DestinationRule", "ServiceEntry",
                 "Gateway", "AuthorizationPolicy"}

Schemas == (IF registered THEN {mockGvk, otherGvk, clusterGvk}
            ELSE {otherGvk, clusterGvk}) \cup ExampleKinds

FindByGroupVersionKind(kind) == kind \in Schemas

IsClusterScoped(kind) == kind = clusterGvk \/ kind \in clusterKinds

\* payload type registered for a kind
SpecTypeOf(kind) == IF kind = clusterGvk THEN "OtherConfig" ELSE kind

\* identity of a resource: cluster-scoped kinds ignore the namespace
Key(kind, name, ns) == <<kind, IF IsClusterScoped(kind) THEN "" ELSE ns, name>>
KeyOf(c) == Key(c.kind, c.name, c.namespace)

Exists(s, key) == \E c \in s : KeyOf(c) = key
Lookup(s, key) == CHOOSE c \in s : KeyOf(c) = key

\* variant: only the name is required
MalformedNameOnly(c) == c.name = ""

\* empty name, or a namespace-scoped kind without a namespace
Malformed(c) ==
    \/ c.name = ""
    \/ ~IsClusterScoped(c.kind) /\ c.namespace = ""

SpecMatchesKind(c) ==
    /\ FindByGroupVersionKind(c.kind)
    /\ ~c.spec.isNil
    /\ c.spec.type = SpecTypeOf(c.kind)

CreateErr(s, c) ==
    \/ Malformed(c)
    \/ ~SpecMatchesKind(c)
    \/ Exists(s, KeyOf(c))

\* the store stamps the version token and the creation time
Stamp(c, r) == [c EXCEPT !.version = Itoa(r), !.createdAt = r]

StoreCreate(s, r, c) ==
    IF CreateErr(s, c) THEN s ELSE s \cup {Stamp(c, r + 1)}

UpdateErr(s, c) ==
    \/ Malformed(c)
    \/ ~Exists(s, KeyOf(c))
    \/ Lookup(s, KeyOf(c)).version # c.version

StoreUpdate(s, r, c) ==
    IF UpdateErr(s, c) THEN s
    ELSE LET old == Lookup(s, KeyOf(c))
         IN  (s \ {old}) \cup
                 {[c EXCEPT !.version = Itoa(r + 1), !.createdAt = old.createdAt]}

StoreGet(s, kind, name, ns) ==
    IF Exists(s, Key(kind, name, ns)) THEN Ptr(Lookup(s, Key(kind, name, ns)))
    ELSE NilConfig

StoreList(s, kind, ns) ==
    IF IsClusterScoped(kind) \/ (ns = "" /\ listAllOnEmpty)
    THEN {c \in s : c.kind = kind}
    ELSE {c \in s : c.kind = kind /\ c.namespace = ns}

DeleteErr(s, kind, name, ns) == ~Exists(s, Key(kind, name, ns))

StoreDelete(s, kind, name, ns) ==
    IF DeleteErr(s, kind, name, ns) THEN s
    ELSE s \ {Lookup(s, Key(kind, name, ns))}

\* a write that succeeded advances the store clock
Tick(r, err) == IF err THEN r ELSE r + 1

(***************************************************************************)
(* CheckMapInvariant                                                       *)
(***************************************************************************)
Sites == {"Create", "Get", "ProbeCreate", "ProbeUpdate", "ListEmpty",
          "GetMissing", "Delete", "ListFinal"}

Called(site) == [calls EXCEPT ![site] = @ + 1]

\* t.Error / t.Errorf / t.Fatal: the failure is recorded under its call site
Failure(step, i) == [step |-> step, i |-> i]
Report(cond, step, i) == IF cond THEN failures \cup {Failure(step, i)} ELSE failures

\* variant: the missing kind is reported with t.Error and the run goes on
verifyConfigTypesNonFatal ==
    /\ pc = "start"
    /\ failures' = Report(~FindByGroupVersionKind(mockGvk), "types", -1)
    /\ pc' = "make"
    /\ UNCHANGED <<registered, listAllOnEmpty, store, rev, store0, namespace, n,
                   elts, pending, revs, k, calls, createCalls, lastList,
                   lastGet, probes, clusterKinds, fin, fout>>

\* verifyConfigTypes: t.Fatal stops the test function
verifyConfigTypes ==
    /\ pc = "start"
    /\ IF ~FindByGroupVersionKind(mockGvk)
       THEN /\ failures' = Report(TRUE, "types", -1)
            /\ pc' = "halted"
       ELSE /\ failures' = failures
            /\ pc' = "make"
    /\ UNCHANGED <<registered, listAllOnEmpty, store, rev, store0, namespace, n,
                   elts, pending, revs, k, calls, createCalls, lastList,
                   lastGet, probes, clusterKinds, fin, fout>>

\* variant: the loop runs for 0 <= i <= n
createConfigsOneMore ==
    /\ pc = "make"
    /\ k <= n
    /\ elts' = (k :> Make(namespace, k)) @@ elts
    /\ k' = k + 1
    /\ UNCHANGED <<registered, listAllOnEmpty, store, rev, store0, namespace, n,
                   pc, pending, revs, failures, calls, createCalls, lastList,
                   lastGet, probes, clusterKinds, fin, fout>>

\* createConfigs: one iteration of elts[i] = Make(namespace, i)
createConfigs ==
    /\ pc = "make"
    /\ k < n
    /\ elts' = (k :> Make(namespace, k)) @@ elts
    /\ k' = k + 1
    /\ UNCHANGED <<registered, listAllOnEmpty, store, rev, store0, namespace, n,
                   pc, pending, revs, failures, calls, createCalls, lastList,
                   lastGet, probes, clusterKinds, fin, fout>>

\* createConfigs: the loop is over, the map is returned
createConfigsDone ==
    /\ pc = "make"
    /\ k >= n
    /\ pending' = DOMAIN elts
    /\ createCalls' = [i \in DOMAIN elts |-> 0]
    /\ pc' = "create"
    /\ UNCHANGED <<registered, listAllOnEmpty, store, rev, store0, namespace, n,
                   elts, revs, k, failures, calls, lastList, lastGet, probes,
                   clusterKinds, fin, fout>>

\* variant: a Create error is reported with t.Fatal
createConfigsInStoreFatal ==
    /\ pc = "create"
    /\ \E i \in pending :
          LET elt == elts[i]
              err == CreateErr(store, elt)
          IN  /\ store' = StoreCreate(store, rev, elt)
              /\ rev' = Tick(rev, err)
              /\ failures' = Report(err, "create", i)
              /\ createCalls' = [createCalls EXCEPT ![i] = @ + 1]
              /\ pending' = pending \ {i}
              /\ pc' = IF err THEN "halted" ELSE pc
    /\ calls' = Called("Create")
    /\ UNCHANGED <<registered, listAllOnEmpty, store0, namespace, n, elts,
                   revs, k, lastList, lastGet, probes, clusterKinds, fin, fout>>

\* variant: the range is left at the first Create error
createConfigsInStoreBreak ==
    /\ pc = "create"
    /\ \E i \in pending :
          LET elt == elts[i]
              err == CreateErr(store, elt)
          IN  /\ store' = StoreCreate(store, rev, elt)
              /\ rev' = Tick(rev, err)
              /\ failures' = Report(err, "create", i)
              /\ createCalls' = [createCalls EXCEPT ![i] = @ + 1]
              /\ pending' = IF err THEN {} ELSE pending \ {i}
    /\ calls' = Called("Create")
    /\ UNCHANGED <<registered, listAllOnEmpty, store0, namespace, n, pc, elts,
                   revs, k, lastList, lastGet, probes, clusterKinds, fin, fout>>

\* createConfigsInStore: one iteration of the range over elts
createConfigsInStore ==
    /\ pc = "create"
    /\ \E i \in pending :
          LET elt == elts[i]
              err == CreateErr(store, elt)
          IN  /\ store' = StoreCreate(store, rev, elt)
              /\ rev' = Tick(rev, err)
              /\ failures' = Report(err, "create", i)
              /\ createCalls' = [createCalls EXCEPT ![i] = @ + 1]
              /\ pending' = pending \ {i}
    /\ calls' = Called("Create")
    /\ UNCHANGED <<registered, listAllOnEmpty, store0, namespace, n, pc, elts,
                   revs, k, lastList, lastGet, probes, clusterKinds, fin, fout>>

\* variant: the loop is left before every fixture has been visited
createConfigsInStoreDoneEarly ==
    /\ pc = "create"
    /\ pending' = DOMAIN elts
    /\ revs' = <<>>
    /\ pc' = "verify"
    /\ UNCHANGED <<registered, listAllOnEmpty, store, rev, store0, namespace, n,
                   elts, k, failures, calls, createCalls, lastList, lastGet,
                   probes, clusterKinds, fin, fout>>

\* createConfigsInStore: the range is exhausted
createConfigsInStoreDone ==
    /\ pc = "create"
    /\ pending = {}
    /\ pending' = DOMAIN elts
    /\ revs' = <<>>
    /\ pc' = "verify"
    /\ UNCHANGED <<registered, listAllOnEmpty, store, rev, store0, namespace, n,
                   elts, k, failures, calls, createCalls, lastList, lastGet,
                   probes, clusterKinds, fin, fout>>

\* variant: the observed revision is written back into the fixture
verifyConfigsInStoreWriteBack ==
    /\ pc = "verify"
    /\ \E i \in pending :
          LET elt == elts[i]
              v1 == StoreGet(store, mockGvk, elt.name, elt.namespace)
              bad == v1.isNil \/ ~Compare(elt, v1.cfg)
          IN  /\ lastGet' = v1
              /\ failures' = Report(bad, "verify", i)
              /\ revs' = IF bad THEN revs ELSE (i :> v1.cfg.version) @@ revs
              /\ elts' = IF bad THEN elts
                         ELSE [elts EXCEPT ![i].version = v1.cfg.version]
              /\ pending' = pending \ {i}
    /\ calls' = Called("Get")
    /\ UNCHANGED <<registered, listAllOnEmpty, store, rev, store0, namespace, n,
                   pc, k, createCalls, lastList, probes, clusterKinds, fin, fout>>

\* verifyConfigsInStore: one iteration of the range over elts
verifyConfigsInStore ==
    /\ pc = "verify"
    /\ \E i \in pending :
          LET elt == elts[i]
              v1 == StoreGet(store, mockGvk, elt.name, elt.namespace)
              bad == v1.isNil \/ ~Compare(elt, v1.cfg)
          IN  /\ lastGet' = v1
              /\ failures' = Report(bad, "verify", i)
              /\ revs' = IF bad THEN revs ELSE (i :> v1.cfg.version) @@ revs
              /\ pending' = pending \ {i}
    /\ calls' = Called("Get")
    /\ UNCHANGED <<registered, listAllOnEmpty, store, rev, store0, namespace, n,
                   pc, elts, k, createCalls, lastList, probes, clusterKinds, fin, fout>>

\* variant: with no fixtures the remaining steps are skipped
verifyConfigsInStoreDoneSkipEmpty ==
    /\ pc = "verify"
    /\ pending = {}
    /\ pc' = IF DOMAIN elts = {} THEN "done" ELSE "negative"
    /\ UNCHANGED <<registered, listAllOnEmpty, store, rev, store0, namespace, n,
                   elts, pending, revs, k, failures, calls, createCalls,
                   lastList, lastGet, probes, clusterKinds, fin,
                   fout>>

\* verifyConfigsInStore: the range is exhausted
verifyConfigsInStoreDone ==
    /\ pc = "verify"
    /\ pending = {}
    /\ pc' = "negative"
    /\ UNCHANGED <<registered, listAllOnEmpty, store, rev, store0, namespace, n,
                   elts, pending, revs, k, failures, calls, createCalls,
                   lastList, lastGet, probes, clusterKinds, fin, fout>>

\* getFirstRevision: the ResourceVersion of whichever fixture the map
\* iteration yields first, "" for an empty map
getFirstRevision(e) ==
    IF DOMAIN e = {} THEN {NoVersion} ELSE {e[i].version : i \in DOMAIN e}

Invalid(version) ==
    Config(mockGvk, "invalid", "", NilMap, NilMap, version, ZeroTime,
           MockConfig("", <<>>))

\* variant: the resource is placed in a namespace
MissingNamespaced(version) ==
    Config(mockGvk, "missing", "ns1", NilMap, NilMap, version, ZeroTime,
           MockConfig("missing", <<>>))

Missing(version) ==
    Config(mockGvk, "missing", "", NilMap, NilMap, version, ZeroTime,
           MockConfig("missing", <<>>))

\* verifyErrorsOnInvalidOperations: build the three resources
verifyErrorsOnInvalidOperations ==
    /\ pc = "negative"
    /\ \E r1 \in getFirstRevision(elts), r2 \in getFirstRevision(elts) :
          probes' = <<ZeroConfig, Invalid(r1), Missing(r2)>>
    /\ k' = 1
    /\ pc' = "probeCreate"
    /\ UNCHANGED <<registered, listAllOnEmpty, store, rev, store0, namespace, n,
                   elts, pending, revs, failures, calls, createCalls, lastList,
                   lastGet, clusterKinds, fin, fout>>

\* assertError: r.Create(cfg) must return an error
assertErrorCreate ==
    /\ pc = "probeCreate"
    /\ LET cfg == probes[k]
           err == CreateErr(store, cfg)
       IN  /\ store' = StoreCreate(store, rev, cfg)
           /\ rev' = Tick(rev, err)
           /\ failures' = Report(~err, "probeCreate", k)
    /\ calls' = Called("ProbeCreate")
    /\ pc' = "probeUpdate"
    /\ UNCHANGED <<registered, listAllOnEmpty, store0, namespace, n, elts,
                   pending, revs, k, createCalls, lastList, lastGet, probes,
                   clusterKinds, fin, fout>>

\* assertError: r.Update(cfg) must return an error
assertErrorUpdate ==
    /\ pc = "probeUpdate"
    /\ LET cfg == probes[k]
           err == UpdateErr(store, cfg)
       IN  /\ store' = StoreUpdate(store, rev, cfg)
           /\ rev' = Tick(rev, err)
           /\ failures' = Report(~err, "probeUpdate", k)
    /\ calls' = Called("ProbeUpdate")
    /\ k' = k + 1
    /\ pc' = IF k = 3 THEN "listEmpty" ELSE "probeCreate"
    /\ UNCHANGED <<registered, listAllOnEmpty, store0, namespace, n, elts,
                   pending, revs, createCalls, lastList, lastGet, probes, clusterKinds, fin,
                   fout>>

\* verifyMissingElements: r.List(mockGvk, "") must be empty
verifyMissingList ==
    /\ pc = "listEmpty"
    /\ LET l == StoreList(store, mockGvk, "")
       IN  /\ lastList' = l
           /\ failures' = Report(Cardinality(l) > 0, "listEmpty", -1)
    /\ calls' = Called("ListEmpty")
    /\ pc' = "getMissing"
    /\ UNCHANGED <<registered, listAllOnEmpty, store, rev, store0, namespace, n,
                   elts, pending, revs, k, createCalls, lastGet, probes, clusterKinds, fin,
                   fout>>

\* verifyMissingElements: r.Get(mockGvk, "missing", "") must be nil
verifyMissingGet ==
    /\ pc = "getMissing"
    /\ LET cfg == StoreGet(store, mockGvk, "missing", "")
       IN  /\ lastGet' = cfg
           /\ failures' = Report(~cfg.isNil, "getMissing", -1)
    /\ calls' = Called("GetMissing")
    /\ k' = 0
    /\ pc' = "delete"
    /\ UNCHANGED <<registered, listAllOnEmpty, store, rev, store0, namespace, n,
                   elts, pending, revs, createCalls, lastList, probes, clusterKinds, fin,
                   fout>>

\* variant: the name is generated from the next index
DeleteNameNext(ns, i) == Make(ns, i + 1).name

\* the name handed to Delete in iteration i
DeleteName(ns, i) == Make(ns, i).name

\* deleteConfigsFromStore: one iteration of the loop over 0 <= i < n
deleteConfigsFromStore ==
    /\ pc = "delete"
    /\ k < n
    /\ LET name == DeleteName(namespace, k)
           err == DeleteErr(store, mockGvk, name, namespace)
       IN  /\ store' = StoreDelete(store, mockGvk, name, namespace)
           /\ failures' = Report(err, "delete", k)
    /\ calls' = Called("Delete")
    /\ k' = k + 1
    /\ UNCHANGED <<registered, listAllOnEmpty, rev, store0, namespace, n, pc,
                   elts, pending, revs, createCalls, lastList, lastGet, probes,
                   clusterKinds, fin, fout>>

\* deleteConfigsFromStore: r.List(mockGvk, namespace) must be empty
deleteConfigsFromStoreList ==
    /\ pc = "delete"
    /\ k >= n
    /\ LET l == StoreList(store, mockGvk, namespace)
       IN  /\ lastList' = l
           /\ failures' = Report(Cardinality(l) # 0, "listFinal", -1)
    /\ calls' = Called("ListFinal")
    /\ pc' = "done"
    /\ UNCHANGED <<registered, listAllOnEmpty, store, rev, store0, namespace, n,
                   elts, pending, revs, k, createCalls, lastGet, probes, clusterKinds, fin,
                   fout>>

(***************************************************************************)
(* Stores the harness is run against                                       *)
(***************************************************************************)
Namespaces == {"", "ns1", "ns2"}

\* an older object under the identity of fixture 0, with another payload
StaleFixture ==
    Stamp([Make("ns1", 0) EXCEPT !.spec = MockConfig("stale", <<>>)], 1)

\* a test-kind object in a namespace the harness is not run on
Bystander ==
    Stamp(Config(mockGvk, "bystander", "ns2", NilMap, NilMap, NoVersion,
                 ZeroTime, MockConfig("bystander", <<>>)), 1)

\* an object of another kind in the tested namespace
OtherObject ==
    Stamp(Config(otherGvk, "other", "ns1", NilMap, NilMap, NoVersion,
                 ZeroTime, OtherSpec("other")), 1)

InitialStores == {{}, {StaleFixture}, {Bystander}, {OtherObject}}

Init ==
    /\ registered \in BOOLEAN
    /\ listAllOnEmpty \in BOOLEAN
    /\ store \in InitialStores
    /\ rev = Cardinality(store)
    /\ store0 = store
    /\ namespace \in {"", "ns1"}
    /\ n \in 0 .. MaxN
    /\ pc = "start"
    /\ elts = <<>>
    /\ pending = {}
    /\ revs = <<>>
    /\ k = 0
    /\ failures = {}
    /\ calls = [s \in Sites |-> 0]
    /\ createCalls = <<>>
    /\ lastList = {}
    /\ lastGet = NilConfig
    /\ probes = <<>>
    /\ clusterKinds = {}
    /\ fin = <<>>
    /\ fout = <<>>

Next ==
    \/ verifyConfigTypes
    \/ createConfigs
    \/ createConfigsDone
    \/ createConfigsInStore
    \/ createConfigsInStoreDone
    \/ verifyConfigsInStore
    \/ verifyConfigsInStoreDone
    \/ verifyErrorsOnInvalidOperations
    \/ assertErrorCreate
    \/ assertErrorUpdate
    \/ verifyMissingList
    \/ verifyMissingGet
    \/ deleteConfigsFromStore
    \/ deleteConfigsFromStoreList

Spec == Init /\ [][Next]_vars

(***************************************************************************)
(* Compare on its own: the arguments are drawn from resources that differ  *)
(* field by field                                                          *)
(***************************************************************************)
CompareInputs ==
    {Config(kind, name, ns, labels, annotations, version, createdAt, spec) :
        kind \in {mockGvk, otherGvk},
        name \in {"mock-config0", "mock-config1"},
        ns \in {"ns1", "ns2"},
        labels \in {NilMap, GoMap("key" :> "mock-config0")},
        annotations \in {GoMap(<<>>), GoMap("annotationkey" :> "mock-config0")},
        version \in {NoVersion, "1"},
        createdAt \in {ZeroTime, 1},
        spec \in {NilSpec, MockConfig("mock-config0", <<ConfigPair("key", "0")>>)}}

InitCompare ==
    /\ registered = TRUE
    /\ listAllOnEmpty = FALSE
    /\ store = {}
    /\ rev = 0
    /\ store0 = {}
    /\ namespace = ""
    /\ n = 0
    /\ pc = "compare"
    /\ elts = <<>>
    /\ pending = {}
    /\ revs = <<>>
    /\ k = 0
    /\ failures = {}
    /\ calls = [s \in Sites |-> 0]
    /\ createCalls = <<>>
    /\ lastList = {}
    /\ lastGet = NilConfig
    /\ probes = <<>>
    /\ clusterKinds = {}
    /\ fin \in CompareInputs \X CompareInputs
    /\ fout = <<>>

CallCompare ==
    /\ pc = "compare"
    /\ fout' = <<Compare(fin[1], fin[2])>>
    /\ pc' = "compared"
    /\ UNCHANGED <<registered, listAllOnEmpty, store, rev, store0, namespace, n,
                   elts, pending, revs, k, failures, calls, createCalls,
                   lastList, lastGet, probes, clusterKinds, fin>>

NextCompare == CallCompare

SpecCompare == InitCompare /\ [][NextCompare]_vars

(***************************************************************************)
(* createConfigs on its own, called twice with the same arguments          *)
(***************************************************************************)
InitMake ==
    /\ registered = TRUE
    /\ listAllOnEmpty = FALSE
    /\ store = {}
    /\ rev = 0
    /\ store0 = {}
    /\ namespace \in Namespaces
    /\ n \in 0 .. MaxIndex
    /\ pc = "make"
    /\ elts = <<>>
    /\ pending = {}
    /\ revs = <<>>
    /\ k = 0
    /\ failures = {}
    /\ calls = [s \in Sites |-> 0]
    /\ createCalls = <<>>
    /\ lastList = {}
    /\ lastGet = NilConfig
    /\ probes = <<>>
    /\ clusterKinds = {}
    /\ fin = <<>>
    /\ fout = <<>>

\* keep the first result and call createConfigs(namespace, n) again
MakeAgain ==
    /\ pc = "create"
    /\ fout = <<>>
    /\ fout' = <<elts>>
    /\ elts' = <<>>
    /\ k' = 0
    /\ pc' = "make"
    /\ UNCHANGED <<registered, listAllOnEmpty, store, rev, store0, namespace, n,
                   pending, revs, failures, calls, createCalls, lastList,
                   lastGet, probes, clusterKinds, fin>>

NextMake ==
    \/ createConfigs
    \/ createConfigsDone
    \/ MakeAgain

SpecMake == InitMake /\ [][NextMake]_vars

(***************************************************************************)
(* CheckIstioConfigTypes                                                   *)
(***************************************************************************)
configName == "example"

\* the example payloads, told apart by their type and a leading field
ExampleSpec(type, key) ==
    [isNil |-> FALSE, type |-> type, key |-> key, pairs |-> <<>>]

TypedCase(name, schema, spec) ==
    [name |-> name, configName |-> configName, schema |-> schema, spec |-> spec]

cases ==
    <<TypedCase("VirtualService", "VirtualService",
                ExampleSpec("VirtualService", "prod")),
      TypedCase("DestinationRule", "DestinationRule",
                ExampleSpec("DestinationRule", "ratings")),
      TypedCase("ServiceEntry", "ServiceEntry",
                ExampleSpec("ServiceEntry", "*.google.com")),
      TypedCase("Gateway", "Gateway",
                ExampleSpec("Gateway", "google.com")),
      TypedCase("AuthorizationPolicy", "AuthorizationPolicy",
                ExampleSpec("AuthorizationPolicy", "httpbin"))>>

TypedSites == {"Create", "List", "Get"} \X (1 .. Len(cases))

\* variant: the namespace is set whatever the scope of the kind
TypedNamespaceAlways(c, ns) == ns

\* configMeta.Namespace: left empty for a cluster-scoped kind
TypedNamespace(c, ns) == IF ~IsClusterScoped(c.schema) THEN ns ELSE ""

\* cfg of the sub-test of case c
TypedConfig(c, ns) ==
    Config(c.schema, c.configName, TypedNamespace(c, ns), NilMap, NilMap,
           NoVersion, ZeroTime, c.spec)

\* variant: the sub-test stops at a Create error
typedCreateFatal ==
    /\ pc = "typedCreate"
    /\ LET cfg == TypedConfig(cases[k], namespace)
           err == CreateErr(store, cfg)
       IN  /\ store' = StoreCreate(store, rev, cfg)
           /\ rev' = Tick(rev, err)
           /\ failures' = Report(err, "typedCreate", k)
           /\ k' = IF err THEN k + 1 ELSE k
           /\ pc' = IF ~err THEN "typedList"
                    ELSE IF k = Len(cases) THEN "typedDone" ELSE "typedCreate"
    /\ calls' = Called(<<"Create", k>>)
    /\ UNCHANGED <<registered, listAllOnEmpty, store0, namespace, n, elts,
                   pending, revs, createCalls, lastList, lastGet, probes,
                   clusterKinds, fin, fout>>

\* sub-test of case k: store.Create(cfg)
typedCreate ==
    /\ pc = "typedCreate"
    /\ LET cfg == TypedConfig(cases[k], namespace)
           err == CreateErr(store, cfg)
       IN  /\ store' = StoreCreate(store, rev, cfg)
           /\ rev' = Tick(rev, err)
           /\ failures' = Report(err, "typedCreate", k)
    /\ calls' = Called(<<"Create", k>>)
    /\ pc' = "typedList"
    /\ UNCHANGED <<registered, listAllOnEmpty, store0, namespace, n, elts,
                   pending, revs, k, createCalls, lastList, lastGet, probes,
                   clusterKinds, fin, fout>>

\* sub-test of case k: store.List(kind, namespace) must not be empty
typedList ==
    /\ pc = "typedList"
    /\ LET configs == StoreList(store, cases[k].schema, namespace)
       IN  /\ lastList' = configs
           /\ failures' = Report(Cardinality(configs) = 0, "typedList", k)
    /\ calls' = Called(<<"List", k>>)
    /\ pc' = "typedGet"
    /\ UNCHANGED <<registered, listAllOnEmpty, store, rev, store0, namespace, n,
                   elts, pending, revs, k, createCalls, lastGet, probes,
                   clusterKinds, fin, fout>>

\* variant: the case name is looked up instead of the config name
TypedGetNameOfCase(c) == c.name

\* the name handed to Get
TypedGetName(c) == c.configName

\* sub-test of case k: store.Get(kind, configName, namespace) must not be
\* nil; the range moves on to the next case
typedGet ==
    /\ pc = "typedGet"
    /\ LET storedConfig == StoreGet(store, cases[k].schema,
                                    TypedGetName(cases[k]), namespace)
       IN  /\ lastGet' = storedConfig
           /\ failures' = Report(storedConfig.isNil, "typedGet", k)
    /\ calls' = Called(<<"Get", k>>)
    /\ k' = k + 1
    /\ pc' = IF k = Len(cases) THEN "typedDone" ELSE "typedCreate"
    /\ UNCHANGED <<registered, listAllOnEmpty, store, rev, store0, namespace, n,
                   elts, pending, revs, createCalls, lastList, probes,
                   clusterKinds, fin, fout>>

\* an "example" destination rule left in the tested namespace
StaleExample ==
    Stamp(Config("DestinationRule", configName, "ns1", NilMap, NilMap,
                 NoVersion, ZeroTime, ExampleSpec("DestinationRule", "old")), 1)

InitTyped ==
    /\ registered = TRUE
    /\ listAllOnEmpty \in BOOLEAN
    /\ clusterKinds \in SUBSET ExampleKinds
    /\ store \in {{}, {StaleExample}}
    /\ rev = Cardinality(store)
    /\ store0 = store
    /\ namespace \in {"", "ns1"}
    /\ n = 0
    /\ pc = "typedCreate"
    /\ elts = <<>>
    /\ pending = {}
    /\ revs = <<>>
    /\ k = 1
    /\ failures = {}
    /\ calls = [s \in TypedSites |-> 0]
    /\ createCalls = <<>>
    /\ lastList = {}
    /\ lastGet = NilConfig
    /\ probes = <<>>
    /\ fin = <<>>
    /\ fout = <<>>

NextTyped ==
    \/ typedCreate
    \/ typedList
    \/ typedGet

SpecTyped == InitTyped /\ [][NextTyped]_vars

(***************************************************************************)
(* Properties                                                              *)
(***************************************************************************)
NoFailure(step, i) == Failure(step, i) \notin failures

\* the store held no resource of the test kind when the harness was invoked
NoTestKindBefore == \A c \in store0 : c.kind # mockGvk

\* bulk creation is over and every Create succeeded
AllCreated ==
    /\ pc \in {"verify", "negative", "probeCreate", "probeUpdate", "listEmpty",
                "getMissing", "delete", "done"}
    /\ \A i \in DOMAIN elts : NoFailure("create", i)

\* the read-back of fixture i has been made
ReadBack(i) ==
    /\ i \in DOMAIN elts
    /\ \/ pc = "verify" /\ i \notin pending
       \/ pc \in {"negative", "probeCreate", "probeUpdate", "listEmpty",
                   "getMissing", "delete", "done"}

\* the fixtures are still in the store: nothing has been deleted yet
BeforeDeletion ==
    \/ pc \in {"verify", "negative", "probeCreate", "probeUpdate", "listEmpty",
                "getMissing"}
    \/ pc = "delete" /\ k = 0

\* C1: every fixture whose Create succeeded on a store without test-kind
\* resources is read back non-null and equal under Compare: the read-back
\* reports no failure, records a version, and the stored resource compares
\* equal to the fixture as long as it has not been deleted.
C1_RoundTrip ==
    \A i \in DOMAIN elts :
        (NoTestKindBefore /\ ReadBack(i) /\ NoFailure("create", i)) =>
            /\ NoFailure("verify", i)
            /\ i \in DOMAIN revs
            /\ BeforeDeletion =>
                  LET v1 == StoreGet(store, mockGvk, elts[i].name,
                                     elts[i].namespace)
                  IN  /\ ~v1.isNil
                      /\ Compare(elts[i], v1.cfg)
                      /\ v1.cfg.version = revs[i]

C1_Witness ==
    /\ pc = "negative"
    /\ n >= 2
    /\ NoTestKindBefore
    /\ \A i \in DOMAIN elts : NoFailure("create", i)
    /\ DOMAIN revs = 0 .. (n - 1)
    /\ \A i \in DOMAIN revs : revs[i] # NoVersion

\* the fields the harness verifies
Agree(a, b) ==
    /\ a.kind = b.kind
    /\ a.name = b.name
    /\ a.namespace = b.namespace
    /\ a.labels = b.labels
    /\ a.annotations = b.annotations
    /\ a.spec = b.spec

\* C2: Compare(a, b) is true exactly when a and b agree on kind, name,
\* namespace, labels, annotations and spec, whatever their version tokens
\* and creation timestamps are.
C2_CompareIsEqualityOfVerifiedFields ==
    pc = "compared" => (fout[1] <=> Agree(fin[1], fin[2]))

C2_Witness ==
    /\ pc = "compared"
    /\ fin[1].version # fin[2].version
    /\ fin[1].createdAt # fin[2].createdAt
    /\ Agree(fin[1], fin[2])
    /\ fout[1] = TRUE

\* C3: on a store whose List(testKind, ns) was empty at the start, once
\* Delete has been issued for each of the n fixture identities the final
\* List(testKind, ns) is empty and reported as such; the Deletes of
\* fixtures that had been created report no error either.
C3_DeletionComplete ==
    (pc = "done" /\ StoreList(store0, mockGvk, namespace) = {}) =>
        /\ calls["Delete"] = n
        /\ lastList = {}
        /\ StoreList(store, mockGvk, namespace) = {}
        /\ NoFailure("listFinal", -1)
        /\ \A i \in DOMAIN elts :
              NoFailure("create", i) => NoFailure("delete", i)

C3_Witness ==
    /\ pc = "done"
    /\ n >= 2
    /\ store0 # {}
    /\ StoreList(store0, mockGvk, namespace) = {}
    /\ \A i \in DOMAIN elts : NoFailure("create", i) /\ NoFailure("delete", i)
    /\ lastList = {}

\* C4: Create and Update both return an error for the zero-value resource,
\* the "invalid" resource and the "missing" resource: none of the six
\* calls is reported as having succeeded, and the store is as it was
\* before the probes.
C4_ProbesRejected ==
    /\ \A i \in 1 .. 3 : NoFailure("probeCreate", i) /\ NoFailure("probeUpdate", i)
    /\ \A c \in store : c.name \notin {"", "invalid", "missing"}

C4_Witness ==
    /\ pc = "listEmpty"
    /\ n >= 1
    /\ calls["ProbeCreate"] = 3
    /\ calls["ProbeUpdate"] = 3
    /\ store # {}
    /\ \A i \in 1 .. 3 : NoFailure("probeCreate", i) /\ NoFailure("probeUpdate", i)

\* identities the harness never makes live
AbsentNames == {"missing", "invalid", "absent"}

\* C5: Get on an identity that is not live returns nil; the harness's
\* Get(testKind, "missing", "") after the probes returns nil and reports
\* nothing.
C5_AbsentIsNil ==
    /\ \A name \in AbsentNames, ns \in Namespaces :
          StoreGet(store, mockGvk, name, ns).isNil
    /\ calls["GetMissing"] = 1 =>
          /\ lastGet.isNil
          /\ NoFailure("getMissing", -1)

C5_Witness ==
    /\ pc = "delete"
    /\ calls["GetMissing"] = 1
    /\ calls["ProbeCreate"] = 3
    /\ calls["ProbeUpdate"] = 3
    /\ store # {}
    /\ lastGet.isNil

\* the resources this run of the harness created in namespace ns1
CreatedIn(ns1) == {c \in store \ store0 : c.namespace = ns1}

\* C6: for every kind and every pair of distinct namespaces ns1 and ns2, no
\* resource created in ns1 appears in List(kind, ns2); stated of the List
\* the harness issues while its fixtures are live, List(testKind, ns2) with
\* ns2 = "".
C6_NamespaceIsolation ==
    pc = "getMissing" =>
        \A ns1 \in Namespaces :
            ns1 # "" => lastList \cap CreatedIn(ns1) = {}

\* C7: when the registry does not resolve the test kind, the harness
\* reports exactly the type-presence failure and halts there: no store
\* operation is issued and the store is left as it was.
C7_FatalPrecondition ==
    (~registered /\ pc # "start") =>
        /\ pc = "halted"
        /\ failures = {Failure("types", -1)}
        /\ \A site \in Sites : calls[site] = 0
        /\ elts = <<>>
        /\ store = store0

C7_Witness ==
    /\ ~registered
    /\ pc = "halted"
    /\ n >= 1
    /\ store0 # {}
    /\ failures = {Failure("types", -1)}

\* C8: once type presence has passed the harness never halts early: every
\* position other than the end has a next step, and at the end Create has
\* been called exactly once per fixture, every read-back, probe, Delete and
\* both List checks have been issued, and the Create errors met on the way
\* are among the reported failures.
C8_NonFatalContinuation ==
    /\ (registered /\ pc # "start") => pc # "halted"
    /\ pc \notin {"done", "halted"} => ENABLED Next
    /\ pc \in {"verify", "negative", "probeCreate", "probeUpdate", "listEmpty",
                "getMissing", "delete", "done"} =>
          /\ DOMAIN createCalls = 0 .. (n - 1)
          /\ \A i \in DOMAIN createCalls : createCalls[i] = 1
          /\ calls["Create"] = n
    /\ pc = "done" =>
          /\ calls["Get"] = n
          /\ calls["ProbeCreate"] = 3
          /\ calls["ProbeUpdate"] = 3
          /\ calls["ListEmpty"] = 1
          /\ calls["GetMissing"] = 1
          /\ calls["Delete"] = n
          /\ calls["ListFinal"] = 1

C8_Witness ==
    /\ pc = "done"
    /\ n >= 3
    /\ namespace = "ns1"
    /\ Failure("create", 0) \in failures
    /\ Failure("verify", 0) \in failures
    /\ NoFailure("create", 1)
    /\ \A i \in DOMAIN createCalls : createCalls[i] = 1
    /\ calls["ListFinal"] = 1

\* C9: after the bulk creation of n fixtures on a store that held no
\* test-kind resource, List(testKind, ns) has exactly n entries until the
\* first Delete, and the List issued after the n Deletes has none.
C9_FixtureCountObservable ==
    (NoTestKindBefore /\ AllCreated) =>
        /\ BeforeDeletion =>
              Cardinality(StoreList(store, mockGvk, namespace)) = n
        /\ pc = "done" => Cardinality(lastList) = 0

C9_Witness ==
    /\ pc = "verify"
    /\ n >= 3
    /\ namespace = "ns1"
    /\ NoTestKindBefore
    /\ AllCreated
    /\ Cardinality(StoreList(store, mockGvk, "ns1")) = n

\* the decimal numerals and fixture names, written out
Numerals == <<"0", "1", "2", "3", "4", "5", "6", "7", "8", "9", "10", "11",
              "12", "13", "14", "15", "16", "17", "18", "19", "20">>
FixtureNames ==
    <<"mock-config0", "mock-config1", "mock-config2", "mock-config3",
      "mock-config4", "mock-config5", "mock-config6", "mock-config7",
      "mock-config8", "mock-config9", "mock-config10", "mock-config11",
      "mock-config12", "mock-config13", "mock-config14", "mock-config15",
      "mock-config16", "mock-config17", "mock-config18", "mock-config19",
      "mock-config20">>

\* C10: createConfigs(namespace, n) returns exactly the indices 0..n-1;
\* resource i has the test kind, the given namespace, the name
\* "mock-config<i>", the label key -> name, the annotation
\* annotationkey -> name, spec key = name and the spec pair
\* ("key", decimal i); names are pairwise distinct, and a second call
\* with the same arguments returns the same map.
C10_FixtureFactory ==
    pc = "create" =>
        /\ DOMAIN elts = 0 .. (n - 1)
        /\ \A i \in DOMAIN elts :
              /\ elts[i].kind = mockGvk
              /\ elts[i].namespace = namespace
              /\ i < Len(FixtureNames) => elts[i].name = FixtureNames[i + 1]
              /\ elts[i].labels = GoMap("key" :> elts[i].name)
              /\ elts[i].annotations = GoMap("annotationkey" :> elts[i].name)
              /\ elts[i].spec.key = elts[i].name
              /\ Len(elts[i].spec.pairs) = 1
              /\ elts[i].spec.pairs[1].key = "key"
              /\ i < Len(Numerals) => elts[i].spec.pairs[1].value = Numerals[i + 1]
              /\ elts[i].version = NoVersion
              /\ elts[i].createdAt = ZeroTime
        /\ \A i \in DOMAIN elts, j \in DOMAIN elts :
              i # j => elts[i].name # elts[j].name
        /\ fout # <<>> => elts = fout[1]

C10_Witness ==
    /\ pc = "create"
    /\ n >= 11
    /\ namespace = "ns1"
    /\ fout # <<>>
    /\ elts = fout[1]
    /\ elts[10].name = "mock-config10"

\* the sub-test of case i has issued its Create / has run to its end
TypedCreated(i) == calls[<<"Create", i>>] = 1
TypedFinished(i) == calls[<<"Get", i>>] = 1

\* C11: invoked with a non-empty namespace on an empty store, a
\* cluster-scoped example kind is created under the name "example" with an
\* empty namespace; the Create succeeds and Get(kind, "example", "") then
\* returns the stored resource with the example payload.
C11_ClusterScopedIngestion ==
    \A i \in 1 .. Len(cases) :
        (/\ pc \in {"typedCreate", "typedList", "typedGet", "typedDone"}
         /\ namespace # ""
         /\ store0 = {}
         /\ IsClusterScoped(cases[i].schema)
         /\ TypedCreated(i)) =>
            LET got == StoreGet(store, cases[i].schema, "example", "")
            IN  /\ NoFailure("typedCreate", i)
                /\ ~got.isNil
                /\ got.cfg.kind = cases[i].schema
                /\ got.cfg.name = "example"
                /\ got.cfg.namespace = ""
                /\ got.cfg.spec = cases[i].spec
                /\ got.cfg.version # NoVersion

C11_Witness ==
    /\ pc = "typedDone"
    /\ namespace = "ns1"
    /\ store0 = {}
    /\ IsClusterScoped("Gateway")
    /\ ~IsClusterScoped("VirtualService")
    /\ \E c \in store : c.kind = "Gateway" /\ c.namespace = ""
    /\ \E c \in store : c.kind = "VirtualService" /\ c.namespace = "ns1"

\* position-wise number of calls a sub-test must have issued
TypedExpected(site, i) ==
    IF pc = "typedDone" \/ i < k THEN 1
    ELSE IF i > k THEN 0
    ELSE IF site = "Create" THEN (IF pc = "typedCreate" THEN 0 ELSE 1)
    ELSE IF site = "List" THEN (IF pc = "typedGet" THEN 1 ELSE 0)
    ELSE 0

\* C12: each of the five example kinds gets exactly one Create, one List
\* and one Get, in its own sub-test; whatever a sub-test reports, its
\* remaining operations and the sub-tests after it are still run.
C12_SubTestIndependence ==
    pc \in {"typedCreate", "typedList", "typedGet", "typedDone"} =>
        /\ pc # "typedDone" => ENABLED NextTyped
        /\ \A site \in {"Create", "List", "Get"}, i \in 1 .. Len(cases) :
              calls[<<site, i>>] = TypedExpected(site, i)
        /\ pc = "typedDone" => k = Len(cases) + 1
        /\ \A f \in failures : f.i \in 1 .. Len(cases)

C12_Witness ==
    /\ pc = "typedDone"
    /\ namespace = "ns1"
    /\ Failure("typedCreate", 2) \in failures
    /\ NoFailure("typedList", 2)
    /\ \A i \in {1, 3, 4, 5} : NoFailure("typedCreate", i)
    /\ \A site \in {"Create", "List", "Get"}, i \in 1 .. Len(cases) :
          calls[<<site, i>>] = 1

\* C16: invoked with a non-empty namespace, the sub-test of a cluster-scoped
\* kind whose resource was created with an empty namespace finds it through
\* List(kind, namespace) and Get(kind, "example", namespace): no failure is
\* reported for that kind.
C16_ClusterScopedLookup ==
    \A i \in 1 .. Len(cases) :
        (/\ pc \in {"typedCreate", "typedList", "typedGet", "typedDone"}
         /\ namespace # ""
         /\ IsClusterScoped(cases[i].schema)
         /\ TypedCreated(i)
         /\ NoFailure("typedCreate", i)) =>
            /\ NoFailure("typedList", i)
            /\ NoFailure("typedGet", i)
            /\ (pc = "typedGet" /\ k = i) => lastList # {}
            /\ (TypedFinished(i) /\ k = i + 1) =>
                  /\ ~lastGet.isNil
                  /\ lastGet.cfg.namespace = ""
            /\ StoreList(store, cases[i].schema, namespace) # {}
            /\ ~StoreGet(store, cases[i].schema, "example", namespace).isNil

C16_Witness ==
    /\ pc = "typedDone"
    /\ namespace = "ns1"
    /\ IsClusterScoped("AuthorizationPolicy")
    /\ NoFailure("typedCreate", 5)
    /\ NoFailure("typedList", 5)
    /\ NoFailure("typedGet", 5)
    /\ ~lastGet.isNil
    /\ lastGet.cfg.kind = "AuthorizationPolicy"
    /\ lastGet.cfg.namespace = ""

\* C13 as stated: with n >= 1 fixtures read back, the version token carried
\* by the "invalid" and "missing" resources is a non-empty token the store
\* assigned to a fixture, as observed during read-back.
C13_BorrowedVersionToken ==
    (/\ pc \in {"probeCreate", "probeUpdate", "listEmpty", "getMissing",
                 "delete", "done"}
     /\ n >= 1
     /\ DOMAIN revs = 0 .. (n - 1)) =>
        \A j \in {2, 3} :
            /\ probes[j].version # NoVersion
            /\ probes[j].version \in {revs[i] : i \in DOMAIN revs}

\* C14 as stated: with n >= 1 fixtures live in a non-empty namespace, the
\* harness's List(testKind, "") returns nothing and no "unexpected objects"
\* failure is reported.
C14_IsolationProbeEmpty ==
    (/\ pc = "getMissing"
     /\ n >= 1
     /\ namespace # ""
     /\ NoTestKindBefore
     /\ AllCreated) =>
        /\ lastList = {}
        /\ NoFailure("listEmpty", -1)

\* store operations of the negative-case step that have been issued
NegativeCalls == calls["ProbeCreate"] + calls["ProbeUpdate"]
                     + calls["ListEmpty"] + calls["GetMissing"]

\* C15: after type presence, all n Creates precede the first read-back
\* Get, all n Gets precede the first negative-case operation, all eight
\* negative-case operations precede the first Delete, and the final List
\* follows the n-th Delete; within the negative-case step Create precedes
\* Update for each resource and List precedes Get.
C15_StepOrdering ==
    pc \notin {"compare", "compared", "store", "typedCreate", "typedList",
               "typedGet", "typedDone"} =>
        /\ calls["Get"] > 0 => calls["Create"] = n
        /\ NegativeCalls > 0 => calls["Get"] = n
        /\ calls["Delete"] > 0 => NegativeCalls = 8
        /\ calls["ListFinal"] > 0 => calls["Delete"] = n /\ NegativeCalls = 8
        /\ calls["ProbeUpdate"] <= calls["ProbeCreate"]
        /\ calls["ProbeCreate"] <= calls["ProbeUpdate"] + 1
        /\ calls["ListEmpty"] > 0 => calls["ProbeUpdate"] = 3
        /\ calls["GetMissing"] <= calls["ListEmpty"]
        /\ calls["Create"] <= n /\ calls["Get"] <= n /\ calls["Delete"] <= n

C15_Witness ==
    /\ pc = "done"
    /\ n >= 2
    /\ calls["Create"] = n
    /\ calls["Get"] = n
    /\ NegativeCalls = 8
    /\ calls["Delete"] = n
    /\ calls["ListFinal"] = 1

\* C17: on a store that was empty, a run that reports no failure leaves no
\* resource of the test kind in any namespace; each Delete is handed the
\* identity of the fixture of its index, so fixture i is gone once
\* iteration i is over.
C17_CleanExit ==
    (pc \in {"delete", "done"} /\ store0 = {}) =>
        /\ \A i \in DOMAIN elts : i < k => ~Exists(store, KeyOf(elts[i]))
        /\ (pc = "done" /\ failures = {}) =>
              \A c \in store : c.kind # mockGvk

C17_Witness ==
    /\ pc = "done"
    /\ store0 = {}
    /\ failures = {}
    /\ n >= 2
    /\ calls["Delete"] = n
    /\ store = {}

\* C19: no step changes the fixtures: at every position after generation
\* fixture i equals Make(namespace, i), with an empty version token and a
\* zero creation time, while every resource the store holds carries the
\* token and time the store gave it.
C19_FixturesFrozen ==
    pc \in {"create", "verify", "negative", "probeCreate", "probeUpdate",
            "listEmpty", "getMissing", "delete", "done"} =>
        /\ DOMAIN elts = 0 .. (n - 1)
        /\ \A i \in DOMAIN elts :
              /\ elts[i] = Make(namespace, i)
              /\ elts[i].version = NoVersion
              /\ elts[i].createdAt = ZeroTime
        /\ \A c \in store : c.version # NoVersion /\ c.createdAt # ZeroTime

C19_Witness ==
    /\ pc = "delete"
    /\ n >= 2
    /\ DOMAIN revs = 0 .. (n - 1)
    /\ \A i \in DOMAIN elts :
          /\ revs[i] # NoVersion
          /\ elts[i].version = NoVersion
          /\ Exists(store, KeyOf(elts[i]))

\* steps the harness still has to take from its position
StepsLeft ==
    CASE pc = "start" -> (4 * n) + 14
      [] pc = "make" -> (n - k) + (3 * n) + 13
      [] pc = "create" -> Cardinality(pending) + (2 * n) + 12
      [] pc = "verify" -> Cardinality(pending) + n + 11
      [] pc = "negative" -> n + 10
      [] pc = "probeCreate" -> (2 * (3 - k)) + n + 5
      [] pc = "probeUpdate" -> (2 * (3 - k)) + n + 4
      [] pc = "listEmpty" -> n + 3
      [] pc = "getMissing" -> n + 2
      [] pc = "delete" -> (n - k) + 1
      [] OTHER -> 0

TotalCalls ==
    calls["Create"] + calls["Get"] + NegativeCalls + calls["Delete"]
        + calls["ListFinal"]

C20_Counts ==
    /\ StepsLeft \in Nat
    /\ pc \notin {"done", "halted"} => ENABLED Next
    /\ (registered /\ pc # "start") => pc # "halted"
    /\ pc = "done" =>
          /\ calls["Create"] = n
          /\ calls["Get"] = n
          /\ calls["ProbeCreate"] = 3
          /\ calls["ProbeUpdate"] = 3
          /\ calls["ListEmpty"] = 1
          /\ calls["GetMissing"] = 1
          /\ calls["Delete"] = n
          /\ calls["ListFinal"] = 1
          /\ TotalCalls = (3 * n) + 9

\* C20: once type presence has passed the harness always has a next step
\* until it is done, every step brings it strictly closer to the end (so
\* it terminates for every n >= 0), and at the end it has issued n Creates,
\* n Gets, 3 + 3 probe calls, one List(testKind, ""), one Get of
\* "missing", n Deletes and one final List: 3n + 9 operations.
C20_TerminationAndCount ==
    /\ []C20_Counts
    /\ [][StepsLeft' < StepsLeft]_vars

C20_Witness ==
    /\ pc = "done"
    /\ n = 0
    /\ calls["ProbeCreate"] = 3
    /\ calls["ProbeUpdate"] = 3
    /\ calls["ListEmpty"] = 1
    /\ calls["ListFinal"] = 1
    /\ TotalCalls = 9

(***************************************************************************)
(* CheckMapInvariant with both range loops taken in index order, as a      *)
(* function of the arguments and the store it was given                    *)
(***************************************************************************)
Outcome(s, r, f) == [store |-> s, rev |-> r, failures |-> f]

FailureIf(cond, step, i) == IF cond THEN {Failure(step, i)} ELSE {}

\* createConfigsInStore over the indices i, i + 1, ..., n - 1
RECURSIVE CreateInOrder(_, _)
CreateInOrder(o, i) ==
    IF i >= n THEN o
    ELSE LET elt == Make(namespace, i)
             err == CreateErr(o.store, elt)
         IN  CreateInOrder(Outcome(StoreCreate(o.store, o.rev, elt),
                                   Tick(o.rev, err),
                                   o.failures \cup FailureIf(err, "create", i)),
                           i + 1)

\* verifyConfigsInStore: the store is only read
VerifyInOrder(o) ==
    Outcome(o.store, o.rev,
            o.failures \cup
                {Failure("verify", i) : i \in
                    {j \in 0 .. (n - 1) :
                        LET elt == Make(namespace, j)
                            v1 == StoreGet(o.store, mockGvk, elt.name,
                                           elt.namespace)
                        IN  v1.isNil \/ ~Compare(elt, v1.cfg)}})

\* assertError for the resources j, j + 1, ..., 3
RECURSIVE ProbeInOrder(_, _, _)
ProbeInOrder(o, ps, j) ==
    IF j > Len(ps) THEN o
    ELSE LET errC == CreateErr(o.store, ps[j])
             s1 == StoreCreate(o.store, o.rev, ps[j])
             r1 == Tick(o.rev, errC)
             errU == UpdateErr(s1, ps[j])
         IN  ProbeInOrder(Outcome(StoreUpdate(s1, r1, ps[j]), Tick(r1, errU),
                                  o.failures
                                      \cup FailureIf(~errC, "probeCreate", j)
                                      \cup FailureIf(~errU, "probeUpdate", j)),
                          ps, j + 1)

\* verifyMissingElements: the store is only read
MissingInOrder(o) ==
    Outcome(o.store, o.rev,
            o.failures
                \cup FailureIf(Cardinality(StoreList(o.store, mockGvk, "")) > 0,
                               "listEmpty", -1)
                \cup FailureIf(~StoreGet(o.store, mockGvk, "missing", "").isNil,
                               "getMissing", -1))

\* the Deletes of deleteConfigsFromStore for i, i + 1, ..., n - 1
RECURSIVE DeleteInOrder(_, _)
DeleteInOrder(o, i) ==
    IF i >= n THEN o
    ELSE LET name == DeleteName(namespace, i)
             err == DeleteErr(o.store, mockGvk, name, namespace)
         IN  DeleteInOrder(Outcome(StoreDelete(o.store, mockGvk, name, namespace),
                                   o.rev,
                                   o.failures \cup FailureIf(err, "delete", i)),
                           i + 1)

FinalListInOrder(o) ==
    Outcome(o.store, o.rev,
            o.failures
                \cup FailureIf(Cardinality(StoreList(o.store, mockGvk,
                                                     namespace)) # 0,
                               "listFinal", -1))

AfterCreateInOrder == CreateInOrder(Outcome(store0, Cardinality(store0), {}), 0)

\* CheckMapInvariant: verifyConfigTypes stops the run when the test kind is
\* not registered
AfterRunInOrder ==
    IF ~FindByGroupVersionKind(mockGvk)
    THEN Outcome(store0, Cardinality(store0), FailureIf(TRUE, "types", -1))
    ELSE LET first == IF n >= 1 THEN Make(namespace, 0).version ELSE NoVersion
             ps == <<ZeroConfig, Invalid(first), Missing(first)>>
         IN  FinalListInOrder(
                 DeleteInOrder(
                     MissingInOrder(
                         ProbeInOrder(VerifyInOrder(AfterCreateInOrder), ps, 1)),
                     0))

\* what the store holds, leaving out the tokens and times it hands out
Strip(c) == [c EXCEPT !.version = NoVersion, !.createdAt = ZeroTime]
Contents(s) == {Strip(c) : c \in s}

\* C18 as stated: whatever order the range loops visit the fixtures in, the
\* store after bulk creation, the failures reported and the store at the
\* end are those of the run that visits them in index order.
C18_SameStoreEveryOrder ==
    /\ (pc = "create" /\ pending = {}) =>
          /\ store = AfterCreateInOrder.store
          /\ failures = AfterCreateInOrder.failures
    /\ pc \in {"done", "halted"} =>
          /\ store = AfterRunInOrder.store
          /\ failures = AfterRunInOrder.failures

\* C18 (amended): whatever order the range loops visit the fixtures in,
\* the failures reported and the store at the end are those of the run
\* that visits them in index order (a run that stops at the registry check
\* included), and so is the store after bulk creation except for the
\* version tokens and creation times, which the store hands out in the
\* order of the writes.
C18_OrderIndependence ==
    /\ (pc = "create" /\ pending = {}) =>
          /\ Contents(store) = Contents(AfterCreateInOrder.store)
          /\ failures = AfterCreateInOrder.failures
          /\ rev = AfterCreateInOrder.rev
    /\ pc \in {"done", "halted"} =>
          /\ store = AfterRunInOrder.store
          /\ failures = AfterRunInOrder.failures

C18_Witness ==
    /\ pc = "done"
    /\ n >= 3
    /\ namespace = "ns1"
    /\ store0 = {StaleFixture}
    /\ Failure("create", 0) \in failures
    /\ 1 \in DOMAIN revs
    /\ revs[1] # Itoa(Cardinality(store0) + 1)
    /\ store = AfterRunInOrder.store

====
